---------------------------- MODULE Spec2Model ----------------------------
(***************************************************************************)
(* The rule engine of rustris (src/src/game.rs): the Tetris<W, H>          *)
(* aggregate, its pieces, collision check, line clearing, gravity timing   *)
(* and the READY / RUNNING / LOST state machine, with the public           *)
(* operations the presentation layer (src/src/main.rs) calls.              *)
(*                                                                         *)
(* Number representation.  usize is 64 bits wide, which is beyond TLC's    *)
(* integers.  A usize value u is represented by its two's-complement       *)
(* reading r: r = u when u < 2^63 and r = u - 2^64 otherwise.  Every value *)
(* the engine builds is within a few units of a board coordinate, so a     *)
(* negative r always stands for the huge unsigned value 2^64 + r (for      *)
(* instance -1 stands for usize::MAX).  Unsigned comparison is ULt / UGe.  *)
(***************************************************************************)
EXTENDS Integers, Sequences, FiniteSets, TLC

(***************************************************************************)
(* Bounds of the model.                                                    *)
(***************************************************************************)
\* Board width and height: the const generic parameters of Tetris<W, H>
\* (main.rs plays Tetris<10, 20>).
W == 4

H == 7

\* Pieces grounded in one explored game.
MaxGroundings == 2

\* Latest clock reading (milliseconds since construction) of an explored run.
MaxClock == 1111

(***************************************************************************)
(* Unsigned / signed conversions (see the representation note above).      *)
(***************************************************************************)
\* `v as i32` of a usize: keeps the low 32 bits, read as signed.
AsI32(u) == u

\* `v as usize` of an i32: sign extension to 64 bits.
AsUsize(i) == i

\* a < b compared as usize values.
ULt(a, b) ==
    IF a >= 0
      THEN (b < 0 \/ a < b)
      ELSE (b < 0 /\ a < b)

\* Faulty variant of UGe: the comparison done on signed values.
UGe_signed(a, b) == a >= b

\* a >= b compared as usize values.
UGe(a, b) == ~ULt(a, b)

(***************************************************************************)
(* Geometry primitives and the piece catalog.                              *)
(***************************************************************************)
RelPoint_new(dx, dy) == [dx |-> dx, dy |-> dy]

Point_new(x, y) == [x |-> x, y |-> y]

\* A rotate that assigns dy and then dx in turn, so that dx is computed
\* from the new dy: self.dy = self.dx; self.dx = -self.dy.
RelPoint_rotate_in_turn(p) == [dx |-> -p.dx, dy |-> p.dx]

\* (self.dy, self.dx) = (self.dx, -self.dy)
RelPoint_rotate(p) == [dx |-> -p.dy, dy |-> p.dx]

\* A mirror that flips dy instead of dx.
RelPoint_mirror_dy(p) == [dx |-> p.dx, dy |-> p.dy * (-1)]

RelPoint_mirror(p) == [dx |-> p.dx * (-1), dy |-> p.dy]

to_abs(p, point) ==
    Point_new(AsUsize(AsI32(point.x) + p.dx), AsUsize(AsI32(point.y) + p.dy))

Point_add(self, x, y) ==
    Point_new(AsUsize(AsI32(self.x) + x), AsUsize(AsI32(self.y) + y))

Shape_new(name, points) == [name |-> name, points |-> points]

SHAPES ==
    << Shape_new("I", << RelPoint_new(0, 0), RelPoint_new(0, 1),
                         RelPoint_new(0, -1), RelPoint_new(0, -2) >>),
       Shape_new("O", << RelPoint_new(0, 0), RelPoint_new(0, 1),
                         RelPoint_new(1, 0), RelPoint_new(1, 1) >>),
       Shape_new("S", << RelPoint_new(0, 0), RelPoint_new(0, 1),
                         RelPoint_new(-1, 0), RelPoint_new(-1, -1) >>),
       Shape_new("L", << RelPoint_new(0, 1), RelPoint_new(1, 1),
                         RelPoint_new(1, 0), RelPoint_new(1, -1) >>),
       Shape_new("T", << RelPoint_new(0, 0), RelPoint_new(0, 1),
                         RelPoint_new(0, -1), RelPoint_new(1, 0) >>) >>

COLORS == << "Red", "Green", "Blue", "Yellow" >>

\* Option<Color>::None
None == "None"

Shape_rotate(s) ==
    IF s.name = "O"
      THEN s
      ELSE [s EXCEPT !.points = [i \in 1..4 |-> RelPoint_rotate(s.points[i])]]

Shape_mirror(s) ==
    [s EXCEPT !.points = [i \in 1..4 |-> RelPoint_mirror(s.points[i])]]

RECURSIVE RotateTimes(_, _)
\* for _ in 0..n { shape.rotate(); }
RotateTimes(s, n) == IF n = 0 THEN s ELSE RotateTimes(Shape_rotate(s), n - 1)

(***************************************************************************)
(* Random construction.  A draw d = [idx, mirror, rot, color] holds the    *)
(* four values rand::thread_rng() yields for one PreparedShape::random():  *)
(* idx in 0..4 (gen_range(0..SHAPES.len())), mirror (gen_bool(0.5)), rot   *)
(* in 0..3 (gen_range(0..4)) and color in 0..3 (gen_range(0..COLORS.len()))*)
(***************************************************************************)
AllDraws ==
    [idx : 0..(Len(SHAPES) - 1), mirror : BOOLEAN, rot : 0..3,
     color : 0..(Len(COLORS) - 1)]

\* The draws the explored games take: the I piece (red) and the O piece
\* (green) as catalogued.  Both fit at the start coordinate on every board
\* of at least 4 columns and 7 rows; receive_rotate reaches their other
\* orientations.
Draws ==
    { [idx |-> 0, mirror |-> FALSE, rot |-> 0, color |-> 0],
      [idx |-> 1, mirror |-> FALSE, rot |-> 0, color |-> 1] }

Shape_random(d) ==
    LET shape == SHAPES[d.idx + 1]
        mirrored == IF d.mirror THEN Shape_mirror(shape) ELSE shape
    IN  RotateTimes(mirrored, d.rot)

PreparedShape_random(d) ==
    [shape |-> Shape_random(d), color |-> COLORS[d.color + 1]]

starting_point == Point_new(W \div 2, 5)

SpawnedShape_random(d) ==
    LET p == PreparedShape_random(d)
    IN  [loc |-> starting_point, shape |-> p.shape, color |-> p.color]

(***************************************************************************)
(* ShapeIter: the four absolute cells of a shape at a location.            *)
(***************************************************************************)
ShapeIter_cells(shape, loc) == [i \in 1..4 |-> to_abs(shape.points[i], loc)]


(***************************************************************************)
(* The game aggregate Tetris<W, H>.  A method taking &mut self is an       *)
(* operator from the aggregate (a record of its fields) to the aggregate   *)
(* after the call.  Two components are not fields of the struct:           *)
(* `panicked` records that a call panicked (an out-of-bounds index, an     *)
(* unwrap of Err), which ends the process, and `grounded` counts the calls *)
(* of ground_falling_shape.  lastOp names the operation called last,       *)
(* whether that call changed the aggregate and, for a receive_tick, how    *)
(* far its clock reading was from since_step at the call (0 for the other  *)
(* operations); probe holds the argument and the result of the last        *)
(* direct call of a private function.                                      *)
(***************************************************************************)
VARIABLES field, next, falling, state, score, since_step, is_sped_up,
          panicked, grounded, lastOp, probe

vars == << field, next, falling, state, score, since_step, is_sped_up,
           panicked, grounded, lastOp, probe >>

Self ==
    [field |-> field, next |-> next, falling |-> falling, state |-> state,
     score |-> score, since_step |-> since_step, is_sped_up |-> is_sped_up,
     panicked |-> panicked, grounded |-> grounded]

Panic(self) == [self EXCEPT !.panicked = TRUE]

\* Whether index i (a usize) is inside an array of length len; indexing
\* outside panics.
InBounds(i, len) == i \in 0..(len - 1)

EmptyRow == [x \in 0..(W - 1) |-> None]

EmptyField == [y \in 0..(H - 1) |-> EmptyRow]

RECURSIVE any_occupied(_, _, _, _)
\* ShapeIter::any with the closure of can_place_at, from point i on:
\* p.y >= H || p.x >= W || self.field[p.y][p.x].is_some()
any_occupied(f, shape, loc, i) ==
    IF i > 4
      THEN [found |-> FALSE, panicked |-> FALSE]
      ELSE LET p == to_abs(shape.points[i], loc)
           IN  IF UGe(p.y, H) \/ UGe(p.x, W)
                 THEN [found |-> TRUE, panicked |-> FALSE]
                 ELSE IF ~(InBounds(p.y, H) /\ InBounds(p.x, W))
                   THEN [found |-> FALSE, panicked |-> TRUE]
                   ELSE IF f[p.y][p.x] # None
                     THEN [found |-> TRUE, panicked |-> FALSE]
                     ELSE any_occupied(f, shape, loc, i + 1)

\* The result of can_place_at on board f: placed is its return value,
\* panicked whether it indexed the board out of range.
can_place_at(f, shape, loc) ==
    LET r == any_occupied(f, shape, loc, 1)
    IN  [placed |-> ~r.found /\ ~r.panicked, panicked |-> r.panicked]

is_row_packed(f, y) == \A x \in 0..(W - 1) : f[y][x] # None

RECURSIVE destroy_rows_in_place(_, _, _)
\* Faulty variant of destroy_rows_from: a full row is emptied where it is
\* and the rows above it are not moved down.
destroy_rows_in_place(f, y, moving) ==
    IF y < 0
      THEN [field |-> f, moving |-> moving, panicked |-> FALSE]
      ELSE IF is_row_packed(f, y)
        THEN destroy_rows_in_place([f EXCEPT ![y] = EmptyRow],
                                   y - 1, moving + 1)
        ELSE destroy_rows_in_place(f, y - 1, moving)

RECURSIVE destroy_rows_stale(_, _, _)
\* Faulty variant of destroy_rows_from: the row looked at is row y, where
\* the swap has put the row that was moved up, not row y + moving.
destroy_rows_stale(f, y, moving) ==
    IF y < 0
      THEN [field |-> f, moving |-> moving, panicked |-> FALSE]
      ELSE IF ~InBounds(y + moving, H)
        THEN [field |-> f, moving |-> moving, panicked |-> TRUE]
        ELSE LET swapped == [f EXCEPT ![y] = f[y + moving],
                                       ![y + moving] = f[y]]
             IN  IF is_row_packed(swapped, y)
                   THEN destroy_rows_stale(
                            [swapped EXCEPT ![y + moving] = EmptyRow],
                            y - 1, moving + 1)
                   ELSE destroy_rows_stale(swapped, y - 1, moving)

RECURSIVE destroy_rows_from(_, _, _)
\* The loop of destroy_full_rows from row y upward, `moving` rows removed
\* so far.
destroy_rows_from(f, y, moving) ==
    IF y < 0
      THEN [field |-> f, moving |-> moving, panicked |-> FALSE]
      ELSE IF ~InBounds(y + moving, H)
        THEN [field |-> f, moving |-> moving, panicked |-> TRUE]
        ELSE LET swapped == [f EXCEPT ![y] = f[y + moving],
                                       ![y + moving] = f[y]]
             IN  IF is_row_packed(swapped, y + moving)
                   THEN destroy_rows_from(
                            [swapped EXCEPT ![y + moving] = EmptyRow],
                            y - 1, moving + 1)
                   ELSE destroy_rows_from(swapped, y - 1, moving)

destroy_full_rows(f) == destroy_rows_from(f, H - 1, 0)

\* Faulty variant of loose: the game goes on.
loose_running(self) == self

loose(self) == [self EXCEPT !.state = "LOST"]

\* Faulty variant of spawn_new_shape: the fresh piece falls and the preview
\* stays.
spawn_new_shape_no_swap(self, d) ==
    LET fresh == SpawnedShape_random(d)
        spawned == [self EXCEPT !.falling = fresh]
        c == can_place_at(spawned.field, fresh.shape, fresh.loc)
    IN  IF c.panicked THEN Panic(self)
        ELSE IF ~c.placed THEN loose(spawned)
        ELSE spawned

\* d is the draw of the SpawnedShape::random() call.
spawn_new_shape(self, d) ==
    LET fresh == SpawnedShape_random(d)
        swapped == [self EXCEPT
                      !.falling = [loc |-> fresh.loc,
                                   shape |-> self.next.shape,
                                   color |-> self.next.color],
                      !.next = [shape |-> fresh.shape, color |-> fresh.color]]
        c == can_place_at(swapped.field, swapped.falling.shape,
                          swapped.falling.loc)
    IN  IF c.panicked THEN Panic(self)
        ELSE IF ~c.placed THEN loose(swapped)
        ELSE swapped

RECURSIVE write_cells(_, _, _, _)
\* for_each_mut of ground_falling_shape from point i on:
\* self.field[p.y][p.x] = Some(self.falling.color)
write_cells(f, cells, color, i) ==
    IF i > 4
      THEN [field |-> f, panicked |-> FALSE]
      ELSE LET p == cells[i]
           IN  IF ~(InBounds(p.y, H) /\ InBounds(p.x, W))
                 THEN [field |-> f, panicked |-> TRUE]
                 ELSE write_cells([f EXCEPT ![p.y][p.x] = color],
                                  cells, color, i + 1)

\* Faulty variant of ground_falling_shape: a grounding that clears rows
\* scores one point however many rows it clears.
ground_falling_shape_flat(self, d) ==
    LET w == write_cells(self.field,
                         ShapeIter_cells(self.falling.shape, self.falling.loc),
                         self.falling.color, 1)
        r == destroy_full_rows(w.field)
    IN  IF w.panicked \/ r.panicked
          THEN Panic(self)
          ELSE spawn_new_shape(
                   [self EXCEPT !.field = r.field,
                                !.score = self.score
                                            + (IF r.moving > 0 THEN 1 ELSE 0),
                                !.grounded = self.grounded + 1], d)

ground_falling_shape(self, d) ==
    LET w == write_cells(self.field,
                         ShapeIter_cells(self.falling.shape, self.falling.loc),
                         self.falling.color, 1)
        r == destroy_full_rows(w.field)
    IN  IF w.panicked \/ r.panicked
          THEN Panic(self)
          ELSE spawn_new_shape(
                   [self EXCEPT !.field = r.field,
                                !.score = self.score + r.moving,
                                !.grounded = self.grounded + 1], d)

\* Faulty variant of step: the state is not looked at.
step_any_state(self, d) ==
    LET future_pos == Point_add(self.falling.loc, 0, 1)
        c == can_place_at(self.field, self.falling.shape, future_pos)
    IN  IF c.panicked THEN Panic(self)
        ELSE IF c.placed
          THEN [self EXCEPT !.falling.loc.y = self.falling.loc.y + 1]
          ELSE ground_falling_shape(self, d)

\* Faulty variant of step: a piece that cannot move down stays where it
\* is and is never grounded.
step_hanging(self, d) ==
    IF self.state # "RUNNING"
      THEN self
      ELSE LET future_pos == Point_add(self.falling.loc, 0, 1)
               c == can_place_at(self.field, self.falling.shape, future_pos)
           IN  IF c.panicked THEN Panic(self)
               ELSE IF c.placed
                 THEN [self EXCEPT !.falling.loc.y = self.falling.loc.y + 1]
                 ELSE self

\* Faulty variant of step: a piece is grounded as soon as the row two
\* below it is blocked, one row early.
step_early(self, d) ==
    IF self.state # "RUNNING"
      THEN self
      ELSE LET future_pos == Point_add(self.falling.loc, 0, 2)
               c == can_place_at(self.field, self.falling.shape, future_pos)
           IN  IF c.panicked THEN Panic(self)
               ELSE IF c.placed
                 THEN [self EXCEPT !.falling.loc.y = self.falling.loc.y + 1]
                 ELSE ground_falling_shape(self, d)

\* Faulty variant of step: the piece moves down without a look at the
\* cells below.
step_unchecked(self, d) ==
    IF self.state # "RUNNING"
      THEN self
      ELSE [self EXCEPT !.falling.loc = Point_add(self.falling.loc, 0, 1)]

step(self, d) ==
    IF self.state # "RUNNING"
      THEN self
      ELSE LET future_pos == Point_add(self.falling.loc, 0, 1)
               c == can_place_at(self.field, self.falling.shape, future_pos)
           IN  IF c.panicked THEN Panic(self)
               ELSE IF c.placed
                 THEN [self EXCEPT !.falling.loc.y = self.falling.loc.y + 1]
                 ELSE ground_falling_shape(self, d)

Tetris_new(dn, df) ==
    [field |-> EmptyField,
     next |-> PreparedShape_random(dn),
     falling |-> SpawnedShape_random(df),
     state |-> "READY",
     since_step |-> 0,
     is_sped_up |-> FALSE,
     score |-> 0,
     panicked |-> FALSE,
     grounded |-> 0]

start(self) == [self EXCEPT !.state = "RUNNING"]

\* Faulty variant of delay: a digit too many in the slow interval.
delay_slow(self) == IF self.is_sped_up THEN 100 ELSE 10000

\* The gravity interval receive_tick compares the elapsed time with.
delay(self) == IF self.is_sped_up THEN 100 ELSE 1000

\* Faulty variant of receive_tick: the timestamp advances by one interval,
\* so that the time in excess of it is carried into the next interval.
receive_tick_carry(self, now, d) ==
    IF now < self.since_step
      THEN Panic(self)
      ELSE IF now - self.since_step > delay(self)
        THEN LET t == step(self, d)
             IN  IF t.panicked THEN t
                 ELSE [t EXCEPT !.since_step = self.since_step + delay(self)]
        ELSE self

\* now is the reading of SystemTime::now() in milliseconds; duration_since
\* returns Err, and unwrap panics, when now is earlier than since_step.
receive_tick(self, now, d) ==
    IF now < self.since_step
      THEN Panic(self)
      ELSE IF now - self.since_step > delay(self)
        THEN LET t == step(self, d)
             IN  IF t.panicked THEN t ELSE [t EXCEPT !.since_step = now]
        ELSE self

\* Faulty variant of receive_shift: the candidate location is not checked.
receive_shift_unchecked(self, dx) ==
    IF self.state # "RUNNING"
      THEN self
      ELSE [self EXCEPT !.falling.loc = Point_add(self.falling.loc, dx, 0)]

\* receive_left and receive_right differ in the column offset only.
receive_shift(self, dx) ==
    IF self.state # "RUNNING"
      THEN self
      ELSE LET future_loc == Point_add(self.falling.loc, dx, 0)
               c == can_place_at(self.field, self.falling.shape, future_loc)
           IN  IF c.panicked THEN Panic(self)
               ELSE IF ~c.placed THEN self
               ELSE [self EXCEPT !.falling.loc = future_loc]

receive_left(self) == receive_shift(self, -1)

receive_right(self) == receive_shift(self, 1)

receive_down_press(self) ==
    IF self.state # "RUNNING" THEN self ELSE [self EXCEPT !.is_sped_up = TRUE]

\* Faulty variant of receive_down_release: guarded like the other handlers.
receive_down_release_guarded(self) ==
    IF self.state # "RUNNING" THEN self ELSE [self EXCEPT !.is_sped_up = FALSE]

receive_down_release(self) == [self EXCEPT !.is_sped_up = FALSE]

\* Faulty variant of receive_rotate: the rotated shape is not checked.
receive_rotate_unchecked(self) ==
    IF self.state # "RUNNING"
      THEN self
      ELSE [self EXCEPT !.falling.shape = Shape_rotate(self.falling.shape)]

receive_rotate(self) ==
    IF self.state # "RUNNING"
      THEN self
      ELSE LET future_shape == Shape_rotate(self.falling.shape)
               c == can_place_at(self.field, future_shape, self.falling.loc)
           IN  IF c.panicked THEN Panic(self)
               ELSE IF ~c.placed THEN self
               ELSE [self EXCEPT !.falling.shape = future_shape]

(***************************************************************************)
(* The state machine: one action per public operation.                     *)
(***************************************************************************)
\* The clock readings a tick may take: the stored timestamp plus one of
\* these elapsed times (a negative one is a clock that was set back).
Elapsed == {-1, 0, 100, 101, 1000, 1001}

Becomes(t, op, e) ==
    /\ field' = t.field
    /\ next' = t.next
    /\ falling' = t.falling
    /\ state' = t.state
    /\ score' = t.score
    /\ since_step' = t.since_step
    /\ is_sped_up' = t.is_sped_up
    /\ panicked' = t.panicked
    /\ grounded' = t.grounded
    /\ lastOp' = [op |-> op, elapsed |-> e, changed |-> t # Self]
    /\ probe' = probe

Init ==
    \E dn \in Draws, df \in Draws :
        LET t == Tetris_new(dn, df)
        IN  /\ field = t.field
            /\ next = t.next
            /\ falling = t.falling
            /\ state = t.state
            /\ score = t.score
            /\ since_step = t.since_step
            /\ is_sped_up = t.is_sped_up
            /\ panicked = t.panicked
            /\ grounded = t.grounded
            /\ lastOp = [op |-> "new", elapsed |-> 0, changed |-> FALSE]
            /\ probe = None

Start == ~panicked /\ Becomes(start(Self), "start", 0)

\* The draws that tell the outcomes of a tick apart: every draw when the
\* tick grounds the piece (only spawn_new_shape draws), one draw otherwise.
TickDraws(self, now) ==
    LET d0 == CHOOSE d \in Draws : TRUE
    IN  IF receive_tick(self, now, d0).grounded # self.grounded
          THEN Draws
          ELSE {d0}

ReceiveTick ==
    /\ ~panicked
    /\ \E e \in Elapsed :
          LET now == since_step + e
          IN  /\ now \in 0..MaxClock
              /\ \E d \in TickDraws(Self, now) :
                    LET t == receive_tick(Self, now, d)
                    IN  /\ t.grounded <= MaxGroundings
                        /\ Becomes(t, "tick", e)

ReceiveLeft == ~panicked /\ Becomes(receive_left(Self), "left", 0)

ReceiveRight == ~panicked /\ Becomes(receive_right(Self), "right", 0)

ReceiveRotate == ~panicked /\ Becomes(receive_rotate(Self), "rotate", 0)

ReceiveDownPress ==
    ~panicked /\ Becomes(receive_down_press(Self), "down_press", 0)

ReceiveDownRelease ==
    ~panicked /\ Becomes(receive_down_release(Self), "down_release", 0)

Next ==
    \/ Start
    \/ ReceiveTick
    \/ ReceiveLeft
    \/ ReceiveRight
    \/ ReceiveRotate
    \/ ReceiveDownPress
    \/ ReceiveDownRelease

Spec == Init /\ [][Next]_vars

\* start() as main.rs calls it: once, on the aggregate just constructed.
StartOnce == state = "READY" /\ Start

NextOnce ==
    \/ StartOnce
    \/ ReceiveTick
    \/ ReceiveLeft
    \/ ReceiveRight
    \/ ReceiveRotate
    \/ ReceiveDownPress
    \/ ReceiveDownRelease

\* The games in which start() is called in READY state only.
SpecOnce == Init /\ [][NextOnce]_vars

(***************************************************************************)
(* Direct calls of the private functions destroy_full_rows and             *)
(* can_place_at on boards that play alone does not reach within the        *)
(* bounds.                                                                 *)
(***************************************************************************)
FullRow == [x \in 0..(W - 1) |-> "Red"]

\* Only column 0 occupied.
LeftRow == [x \in 0..(W - 1) |-> IF x = 0 THEN "Green" ELSE None]

\* Every column but column 0 occupied.
RightRow == [x \in 0..(W - 1) |-> IF x = 0 THEN None ELSE "Blue"]

RowKinds == {EmptyRow, FullRow, LeftRow, RightRow}

\* The aggregate as constructed, but for its board and falling piece.
ProbeInit(f, fall) ==
    LET d == CHOOSE x \in Draws : TRUE
        t == Tetris_new(d, d)
    IN      /\ field = f
            /\ next = t.next
            /\ falling = fall
            /\ state = t.state
            /\ score = t.score
            /\ since_step = t.since_step
            /\ is_sped_up = t.is_sped_up
            /\ panicked = t.panicked
            /\ grounded = t.grounded
            /\ lastOp = [op |-> "new", elapsed |-> 0, changed |-> FALSE]
            /\ probe = None

InitDestroy ==
    \E f \in [0..(H - 1) -> RowKinds] :
        ProbeInit(f, SpawnedShape_random(CHOOSE d \in Draws : TRUE))

\* self.score += self.destroy_full_rows() on the current board.
DestroyFullRows ==
    LET r == destroy_full_rows(field)
    IN  /\ ~panicked
        /\ lastOp.op = "new"
        /\ field' = r.field
        /\ score' = score + r.moving
        /\ panicked' = r.panicked
        /\ probe' = [board |-> field, result |-> r]
        /\ lastOp' = [op |-> "destroy_full_rows", elapsed |-> 0,
                      changed |-> r.field # field]
        /\ UNCHANGED << next, falling, state, since_step, is_sped_up,
                        grounded >>

NextDestroy == DestroyFullRows

SpecDestroy == InitDestroy /\ [][NextDestroy]_vars

\* Every orientation Shape::random() can return.
AllShapes == { Shape_random(d) : d \in AllDraws }

\* Locations handed to can_place_at: every board coordinate, the column
\* and row just past the board, and the wrapped coordinate usize::MAX
\* (represented by -1) that Point::add(-1, 0) yields at column 0.
ProbeLocs == { Point_new(x, y) : x \in (-1)..W, y \in (-1)..H }

Checkerboard ==
    [y \in 0..(H - 1) |->
        [x \in 0..(W - 1) |-> IF (x + y) % 2 = 0 THEN "Yellow" ELSE None]]

\* The two bottom rows settled except for column 0.
BottomHeavy ==
    [y \in 0..(H - 1) |-> IF y >= H - 2 THEN RightRow ELSE EmptyRow]

ProbeBoards == {EmptyField, Checkerboard, BottomHeavy}

InitPlace ==
    \E f \in ProbeBoards, sh \in AllShapes, loc \in ProbeLocs :
        ProbeInit(f, [loc |-> loc, shape |-> sh, color |-> "Red"])

\* self.can_place_at(&self.falling.shape, &self.falling.loc)
CanPlaceAt ==
    LET r == can_place_at(field, falling.shape, falling.loc)
    IN  /\ ~panicked
        /\ lastOp.op = "new"
        /\ panicked' = r.panicked
        /\ probe' = [board |-> field, shape |-> falling.shape,
                     loc |-> falling.loc, result |-> r]
        /\ lastOp' = [op |-> "can_place_at", elapsed |-> 0, changed |-> FALSE]
        /\ UNCHANGED << field, next, falling, state, score, since_step,
                        is_sped_up, grounded >>

NextPlace == CanPlaceAt

SpecPlace == InitPlace /\ [][NextPlace]_vars

(***************************************************************************)
(* Direct calls of Shape::rotate and Shape::mirror on every orientation    *)
(* Shape::random() can return.  probe holds the shape the rotations began  *)
(* from, the shape before the last call, and the rotations made since.     *)
(***************************************************************************)
MaxRotations == 4

InitShape ==
    \E sh \in AllShapes :
        /\ field = EmptyField
        /\ next = PreparedShape_random(CHOOSE d \in Draws : TRUE)
        /\ falling = [loc |-> starting_point, shape |-> sh, color |-> "Red"]
        /\ state = "READY"
        /\ score = 0
        /\ since_step = 0
        /\ is_sped_up = FALSE
        /\ panicked = FALSE
        /\ grounded = 0
        /\ lastOp = [op |-> "new", elapsed |-> 0, changed |-> FALSE]
        /\ probe = [origin |-> sh, before |-> sh, rotations |-> 0]

\* self.falling.shape.rotate()
ShapeRotate ==
    LET r == Shape_rotate(falling.shape)
    IN  /\ probe.rotations < MaxRotations
        /\ falling' = [falling EXCEPT !.shape = r]
        /\ probe' = [probe EXCEPT !.before = falling.shape,
                                  !.rotations = probe.rotations + 1]
        /\ lastOp' = [op |-> "rotate", elapsed |-> 0,
                      changed |-> r # falling.shape]
        /\ UNCHANGED << field, next, state, score, since_step, is_sped_up,
                        panicked, grounded >>

\* self.falling.shape.mirror(); the rotations are counted afresh from the
\* mirrored shape.
ShapeMirror ==
    LET r == Shape_mirror(falling.shape)
    IN  /\ falling' = [falling EXCEPT !.shape = r]
        /\ probe' = [origin |-> r, before |-> falling.shape, rotations |-> 0]
        /\ lastOp' = [op |-> "mirror", elapsed |-> 0,
                      changed |-> r # falling.shape]
        /\ UNCHANGED << field, next, state, score, since_step, is_sped_up,
                        panicked, grounded >>

NextShape == ShapeRotate \/ ShapeMirror

SpecShape == InitShape /\ [][NextShape]_vars

(***************************************************************************)
(* Properties.  They are stated on signed board coordinates, apart from    *)
(* the operators above: a cell (x, y) is free when it lies on the board    *)
(* and holds no colour.                                                    *)
(***************************************************************************)
CellFree(f, x, y) ==
    /\ x \in 0..(W - 1)
    /\ y \in 0..(H - 1)
    /\ f[y][x] = None

\* The four cells of shape sh with its pivot at (x, y) are all free.
Fits(f, sh, x, y) ==
    \A i \in 1..4 : CellFree(f, x + sh.points[i].dx, y + sh.points[i].dy)

\* This step is a receive_tick whose clock reading is e after since_step.
TickAt(e) == lastOp'.op = "tick" /\ lastOp'.elapsed = e

\* This step grounded the falling piece.
Grounding == grounded' = grounded + 1

\* C1: LOST is terminal: once the state is LOST no public operation
\* (start included) changes it to anything else.
C1_LostIsTerminal == [][state = "LOST" => state' = "LOST"]_vars

\* C2: while the state is not RUNNING, receive_left, receive_right,
\* receive_rotate and receive_tick leave the board, the falling piece, the
\* next piece and the score unchanged, whatever the elapsed time.
C2_IdleFrame ==
    [][(state # "RUNNING"
          /\ lastOp'.op \in {"left", "right", "rotate", "tick"})
        => (field' = field /\ falling' = falling /\ next' = next
              /\ score' = score)]_vars

\* receive_left was called, and ignored, after the game was lost.
C2_Witness == state = "LOST" /\ lastOp.op = "left" /\ ~lastOp.changed

\* C3: in RUNNING state receive_left / receive_right changes the column of
\* the falling piece by exactly -1 / +1 iff the four cells of the shape at
\* the shifted location are on the board and empty, and otherwise changes
\* nothing at all; the shape, row, colour, board, next piece, score and
\* state never change.
C3_Shift ==
    [][(state = "RUNNING" /\ lastOp'.op \in {"left", "right"})
        => LET dx == IF lastOp'.op = "left" THEN -1 ELSE 1
           IN  /\ IF Fits(field, falling.shape, falling.loc.x + dx,
                          falling.loc.y)
                    THEN falling'.loc.x = falling.loc.x + dx
                    ELSE Self' = Self
               /\ falling'.shape = falling.shape
               /\ falling'.loc.y = falling.loc.y
               /\ falling'.color = falling.color
               /\ field' = field
               /\ next' = next
               /\ score' = score
               /\ state' = state]_vars

\* receive_left was called with the piece at column 0 (the candidate column
\* is negative) and was ignored.
C3_Witness ==
    /\ state = "RUNNING"
    /\ falling.loc.x = 0
    /\ lastOp.op = "left" /\ ~lastOp.changed

\* C4: in RUNNING state receive_rotate replaces the falling shape by its
\* one-step rotation iff the rotated shape fits at the current location,
\* and otherwise keeps the shape; the location, colour, board, next piece,
\* score and state never change.
C4_Rotate ==
    [][(state = "RUNNING" /\ lastOp'.op = "rotate")
        => LET rotated == Shape_rotate(falling.shape)
           IN  /\ falling'.shape =
                     IF Fits(field, rotated, falling.loc.x, falling.loc.y)
                       THEN rotated
                       ELSE falling.shape
               /\ falling'.loc = falling.loc
               /\ falling'.color = falling.color
               /\ field' = field
               /\ next' = next
               /\ score' = score
               /\ state' = state]_vars

\* receive_rotate was called on a piece whose rotation does not fit where
\* it is, and was ignored.
C4_Witness ==
    /\ state = "RUNNING"
    /\ lastOp.op = "rotate" /\ ~lastOp.changed
    /\ Shape_rotate(falling.shape) # falling.shape
    /\ ~Fits(field, Shape_rotate(falling.shape), falling.loc.x, falling.loc.y)

\* This step is exactly one gravity step of the falling piece: one row
\* down where the shape fits one row below, a grounding where it does not.
OneGravityStep ==
    IF Fits(field, falling.shape, falling.loc.x, falling.loc.y + 1)
      THEN /\ falling' = [falling EXCEPT !.loc.y = falling.loc.y + 1]
           /\ field' = field
           /\ ~Grounding
      ELSE Grounding

\* C5 as stated: in RUNNING state with the soft-drop flag clear, a tick
\* whose clock reading is at least 1000 after the last-step timestamp
\* (exactly 1000 included) performs exactly one gravity step.
C5_DueFrom1000 ==
    [][\A e \in Elapsed :
          (state = "RUNNING" /\ ~is_sped_up /\ e >= 1000 /\ TickAt(e))
          => OneGravityStep]_vars

\* C5, amended: in RUNNING state with the soft-drop flag clear, a tick
\* whose clock reading is more than 1000 after the last-step timestamp
\* performs exactly one gravity step.
C5_DueAfter1000 ==
    [][\A e \in Elapsed :
          (state = "RUNNING" /\ ~is_sped_up /\ e > 1000 /\ TickAt(e))
          => OneGravityStep]_vars

\* The first tick of a game, 1001 after construction with the flag clear,
\* moved the piece one row down from the start row.
C5_Witness ==
    /\ state = "RUNNING"
    /\ ~is_sped_up
    /\ lastOp.op = "tick" /\ lastOp.changed
    /\ since_step = 1001
    /\ grounded = 0
    /\ falling.loc.y = 6

\* C6: receive_down_press sets the soft-drop flag only in RUNNING state and
\* is ignored otherwise; receive_down_release clears it in every state;
\* neither changes the board, the pieces, the score or the state; and a
\* tick in RUNNING state steps iff the elapsed time exceeds 100 with the
\* flag set, 1000 with the flag clear.
C6_SoftDrop ==
    [][/\ lastOp'.op = "down_press"
          => is_sped_up' = (IF state = "RUNNING" THEN TRUE ELSE is_sped_up)
       /\ lastOp'.op = "down_release" => is_sped_up' = FALSE
       /\ lastOp'.op \in {"down_press", "down_release"}
          => (field' = field /\ falling' = falling /\ next' = next
                /\ score' = score /\ state' = state)
       /\ \A e \in Elapsed :
             (state = "RUNNING" /\ e >= 0 /\ TickAt(e))
             => ((Grounding \/ falling'.loc.y = falling.loc.y + 1)
                   <=> e > (IF is_sped_up THEN 100 ELSE 1000))]_vars

\* receive_down_release cleared a set flag after the game was lost.
C6_Witness ==
    /\ state = "LOST"
    /\ ~is_sped_up
    /\ lastOp.op = "down_release" /\ lastOp.changed

\* Board f with the four cells of the falling piece fl written into it.
Written(f, fl) ==
    [y \in 0..(H - 1) |->
        [x \in 0..(W - 1) |->
            IF \E i \in 1..4 : /\ fl.loc.x + fl.shape.points[i].dx = x
                               /\ fl.loc.y + fl.shape.points[i].dy = y
              THEN fl.color
              ELSE f[y][x]]]

\* The rows of board f with no empty cell.
FullRows(f) == { y \in 0..(H - 1) : \A x \in 0..(W - 1) : f[y][x] # None }

\* C7: the score never decreases, changes only at a grounding, and each
\* grounding adds exactly the number of rows that are full once the four
\* cells of the falling piece are written into the board.
C7_Score ==
    [][/\ score' >= score
       /\ score' # score => (Grounding /\ lastOp'.op = "tick")
       /\ Grounding
          => score' = score + Cardinality(FullRows(Written(field, falling)))
      ]_vars

\* The first piece of a game completed a row when it was grounded.
C7_Witness ==
    /\ grounded = 1
    /\ score = 1
    /\ lastOp.op = "tick"

RECURSIVE KeptRows(_, _)
\* The rows y, y + 1, ..., H - 1 of board f that are not full, top to bottom.
KeptRows(f, y) ==
    IF y >= H
      THEN << >>
      ELSE IF y \in FullRows(f)
        THEN KeptRows(f, y + 1)
        ELSE << f[y] >> \o KeptRows(f, y + 1)

\* C8: destroy_full_rows turns any board with k full rows into k empty rows
\* on top of its non-full rows in their original order, returns k, and
\* indexes no row outside the board.
C8_DestroyFullRows ==
    lastOp.op = "destroy_full_rows"
    => LET k == Cardinality(FullRows(probe.board))
           kept == KeptRows(probe.board, 0)
       IN  /\ ~probe.result.panicked
           /\ probe.result.moving = k
           /\ Len(kept) = H - k
           /\ probe.result.field =
                 [y \in 0..(H - 1) |->
                     IF y < k THEN EmptyRow ELSE kept[y - k + 1]]
           /\ field = probe.result.field
           /\ score = k

\* destroy_full_rows ran on a board whose top row, bottom row and the row
\* above the bottom row were full, with a full row between two rows that
\* were not.
C8_Witness ==
    /\ lastOp.op = "destroy_full_rows"
    /\ {0, H - 2, H - 1} \subseteq FullRows(probe.board)
    /\ \E y \in 2..(H - 4) :
          /\ y \in FullRows(probe.board)
          /\ probe.board[y - 1] = LeftRow
          /\ probe.board[y + 1] = RightRow
    /\ score >= 4

\* C9: can_place_at returns true iff each of the four cells of the shape
\* (location plus signed offset) is on the board and empty, a negative
\* coordinate being off the board, and it reads the board at no index out
\* of range.
C9_CanPlaceAt ==
    lastOp.op = "can_place_at"
    => /\ ~probe.result.panicked
       /\ probe.result.placed
             = Fits(probe.board, probe.shape, probe.loc.x, probe.loc.y)

\* can_place_at was asked about the wrapped column that receive_left
\* computes at column 0, for a shape with a cell right of its pivot, and
\* answered false.
C9_Witness ==
    /\ lastOp.op = "can_place_at"
    /\ probe.loc.x = -1
    /\ probe.loc.y \in 0..(H - 1)
    /\ \E i \in 1..4 : probe.shape.points[i].dx > 0
    /\ ~probe.result.placed
    /\ ~panicked

\* C10: at every grounding the new falling piece has the shape and colour
\* the preview held before it and sits at (W / 2, 5), the preview is a
\* piece PreparedShape::random() can return, and the state becomes LOST iff
\* that falling piece does not fit at the start on the board as it is after
\* line clearing; the state becomes LOST in no other way.
C10_Spawn ==
    [][/\ Grounding
          => /\ falling'.shape = next.shape
             /\ falling'.color = next.color
             /\ falling'.loc = [x |-> W \div 2, y |-> 5]
             /\ \E d \in AllDraws : next' = PreparedShape_random(d)
             /\ state' = "LOST"
                   <=> ~Fits(field', falling'.shape, W \div 2, 5)
       /\ (state # "LOST" /\ state' = "LOST") => Grounding]_vars

\* The first grounding of a game made the O piece of the preview the
\* falling piece, drew an I piece for the preview, and lost the game.
C10_Witness ==
    /\ grounded = 1
    /\ state = "LOST"
    /\ lastOp.op = "tick" /\ lastOp.elapsed > 0
    /\ falling.shape.name = "O"
    /\ next.shape.name = "I"

\* C11 as stated: receive_tick never faults on a clock that did not advance:
\* a tick whose clock reading is earlier than or equal to the last-step
\* timestamp raises no fault and changes no field of the game.
C11_ClockClamped ==
    [][\A e \in Elapsed :
          (e <= 0 /\ TickAt(e)) => (~panicked' /\ Self' = Self)]_vars

\* C12 as stated: a receive_tick in READY or LOST state, whatever the
\* elapsed time, changes no field of the game, the last-step timestamp
\* included.  Readings before the timestamp are left to C11.
C12_IdleTick ==
    [][\A e \in Elapsed :
          (state # "RUNNING" /\ e >= 0 /\ TickAt(e)) => Self' = Self]_vars

\* The set of the four relative offsets of a shape.
Offsets(s) == { s.points[i] : i \in 1..4 }

\* C13: for every catalog shape in every orientation Shape::random() can
\* return, four applications of rotate (and any multiple of four) restore
\* the set of its four relative offsets; and every application of rotate
\* to an O shape leaves its offsets as they were.
C13_RotateFour ==
    /\ probe.rotations % 4 = 0
          => Offsets(falling.shape) = Offsets(probe.origin)
    /\ probe.origin.name = "O" => falling.shape = probe.origin

\* A mirrored L shape, not as catalogued, has been rotated four times and
\* the last rotation changed its offsets.
C13_Witness ==
    /\ probe.rotations = 4
    /\ probe.origin.name = "L"
    /\ probe.origin = Shape_mirror(SHAPES[4])
    /\ lastOp.op = "rotate" /\ lastOp.changed
    /\ Offsets(probe.before) # Offsets(probe.origin)

\* C14: in every reachable state the stored location of the falling piece
\* satisfies 0 <= x < W and 0 <= y < H; the wrapped candidate that
\* receive_left computes at column 0 is never stored.
C14_PivotInRange ==
    /\ falling.loc.x \in 0..(W - 1)
    /\ falling.loc.y \in 0..(H - 1)

\* A receive_left in RUNNING state at column 0, whose candidate column
\* wrapped to usize::MAX, was ignored; the shape there has cells on one side
\* of its pivot only.
C14_Witness ==
    /\ state = "RUNNING"
    /\ lastOp.op = "left" /\ ~lastOp.changed
    /\ falling.loc.x = 0
    /\ Point_add(falling.loc, -1, 0).x = -1
    /\ \A i \in 1..4 : falling.shape.points[i].dx >= 0
    /\ \E i \in 1..4 : falling.shape.points[i].dx > 0

\* C15 as stated: one rotate maps every relative offset (dx, dy) of a
\* non-O shape to (dy, -dx), and mirror maps (dx, dy) to (-dx, dy).
C15_RotateAsStated ==
    /\ (lastOp.op = "rotate" /\ probe.before.name # "O")
          => \A i \in 1..4 :
                falling.shape.points[i]
                  = [dx |-> probe.before.points[i].dy,
                     dy |-> -probe.before.points[i].dx]
    /\ lastOp.op = "mirror"
          => \A i \in 1..4 :
                falling.shape.points[i]
                  = [dx |-> -probe.before.points[i].dx,
                     dy |-> probe.before.points[i].dy]

\* C15, amended: one rotate maps every relative offset (dx, dy) of a non-O
\* shape to (-dy, dx), the quarter turn the other way round, and mirror
\* maps (dx, dy) to (-dx, dy); neither changes the kind of the shape.
C15_RotateMirror ==
    /\ (lastOp.op = "rotate" /\ probe.before.name # "O")
          => /\ falling.shape.name = probe.before.name
             /\ \A i \in 1..4 :
                   falling.shape.points[i]
                     = [dx |-> -probe.before.points[i].dy,
                        dy |-> probe.before.points[i].dx]
    /\ lastOp.op = "mirror"
          => /\ falling.shape.name = probe.before.name
             /\ \A i \in 1..4 :
                   falling.shape.points[i]
                     = [dx |-> -probe.before.points[i].dx,
                        dy |-> probe.before.points[i].dy]

\* An S shape was rotated after a mirror call that changed it: the offset
\* (-1, -1) of the catalog entry became (1, -1) and then (1, 1), where the
\* turn as stated would give (-1, -1).
C15_Witness ==
    /\ lastOp.op = "rotate"
    /\ probe.rotations = 1
    /\ probe.origin = Shape_mirror(SHAPES[3])
    /\ probe.before = probe.origin
    /\ falling.shape.points[4] = RelPoint_new(1, 1)

\* C16: in RUNNING state a tick that is due (its clock reading exceeds the
\* last-step timestamp by more than the gravity interval) performs exactly
\* one gravity step however many whole intervals have elapsed, the piece
\* advancing one row at most, and sets the last-step timestamp to the clock
\* reading of that tick; a tick that is not due performs no step and leaves
\* the timestamp unchanged.
C16_OneStepPerTick ==
    [][\A e \in Elapsed :
          (state = "RUNNING" /\ TickAt(e))
          => IF e > (IF is_sped_up THEN 100 ELSE 1000)
               THEN /\ OneGravityStep
                    /\ falling'.loc.y <= falling.loc.y + 1
                    /\ since_step' = since_step + e
               ELSE UNCHANGED << field, next, falling, state, score,
                                 since_step, is_sped_up, grounded >>]_vars

\* With the soft-drop flag set, the first due tick of a game came 1001
\* after construction, ten whole intervals of 100: the piece, turned flat
\* before, is one row below the start row and the timestamp is the reading
\* of that tick.
C16_Witness ==
    /\ state = "RUNNING"
    /\ is_sped_up
    /\ lastOp.op = "tick" /\ lastOp.elapsed = 1001
    /\ since_step = 1001
    /\ grounded = 0
    /\ falling.loc.y = 6

\* This step is a receive_tick that called step(): its clock reading
\* exceeds the last-step timestamp by more than the gravity interval.
DueTick ==
    /\ lastOp'.op = "tick"
    /\ lastOp'.elapsed > (IF is_sped_up THEN 100 ELSE 1000)

\* C17: a gravity step in RUNNING state grounds the piece if and only if
\* the falling shape cannot be placed one row below its location; when it
\* can, the step increases the row of the falling piece by exactly 1 and
\* leaves its column, shape and colour, the board, the next piece, the
\* score and the state unchanged.
C17_GravityStep ==
    [][(state = "RUNNING" /\ DueTick)
          => /\ Grounding
                   <=> ~Fits(field, falling.shape,
                             falling.loc.x, falling.loc.y + 1)
             /\ Fits(field, falling.shape, falling.loc.x, falling.loc.y + 1)
                   => /\ falling'.loc.y = falling.loc.y + 1
                      /\ falling'.loc.x = falling.loc.x
                      /\ falling'.shape = falling.shape
                      /\ falling'.color = falling.color
                      /\ UNCHANGED << field, next, score, state >>]_vars

\* After a grounding that cleared a row, a gravity step under soft drop
\* moved the second piece of the game one row down.
C17_Witness ==
    /\ state = "RUNNING"
    /\ grounded = 1
    /\ score = 1
    /\ is_sped_up
    /\ lastOp.op = "tick" /\ lastOp.elapsed = 101
    /\ falling.loc.y = 6

\* C18: when the initial falling piece fits on the empty board and start()
\* is called in READY state only, in every reachable state that is READY or
\* RUNNING the four cells of the falling piece are on the board and none of
\* them is a settled cell; so every grounding writes four cells that are on
\* the board and were empty, and no index is out of range.
C18_FallingFits ==
    /\ [](state \in {"READY", "RUNNING"}
            => Fits(field, falling.shape, falling.loc.x, falling.loc.y))
    /\ [][Grounding
            => /\ Fits(field, falling.shape, falling.loc.x, falling.loc.y)
               /\ ~panicked']_vars

\* The second piece of a game that goes on was spawned above settled cells
\* and has been moved or turned since.
C18_Witness ==
    /\ state = "RUNNING"
    /\ grounded = 1
    /\ field # EmptyField
    /\ lastOp.op \in {"left", "right", "rotate"} /\ lastOp.changed

\* C19: in every reachable state, as observed between public operations,
\* no row of the board is completely full.
C19_NoFullRow == FullRows(field) = {}

\* The second grounding of a game completed the two bottom rows at once
\* and removed both.
C19_Witness ==
    /\ grounded = 2
    /\ score = 2
    /\ lastOp.op = "tick" /\ lastOp.changed
    /\ field = EmptyField

\* C20: gravity always makes progress.  Every due tick in RUNNING state
\* either grounds the falling piece or moves it one row down; a piece is
\* spawned in row 5 and its row never exceeds H - 1; and no other public
\* operation changes the row or grounds the piece.  So the row counts the
\* gravity steps since the spawn, and a piece is grounded by the (H - 5)th
\* due tick after its spawn at the latest, whatever calls of receive_left,
\* receive_right, receive_rotate, receive_down_press and
\* receive_down_release come in between.
C20_GravityProgress ==
    [][/\ (state = "RUNNING" /\ DueTick)
             => \/ Grounding
                \/ falling'.loc.y = falling.loc.y + 1
       /\ lastOp'.op # "tick"
             => /\ falling'.loc.y = falling.loc.y
                /\ ~Grounding
       /\ Grounding => falling'.loc.y = 5
       /\ falling'.loc.y \in 5..(H - 1)]_vars

\* The first piece of a game, turned flat, fell one row at the first due
\* tick and was grounded by the second, which completed the bottom row.
C20_Witness ==
    /\ grounded = 1
    /\ lastOp.op = "tick" /\ lastOp.elapsed = 101
    /\ since_step = 202
    /\ state = "RUNNING"
    /\ field = EmptyField
    /\ score = 1

============================================================================
